---- MODULE Spec2Model ----
(***************************************************************************)
(* fastapi-simple-auth: the token issuer/verifier and authentication gate  *)
(* (src/auth/util/main.py), the generic repository                         *)
(* (src/base/database/repository/base.py) and the account endpoints        *)
(* (src/auth/endpoint/account/main.py).                                    *)
(*                                                                         *)
(* Time is counted in ticks of 1/TicksPerSecond second.  A python Optional *)
(* value is a sequence of length at most one: << >> is None.               *)
(***************************************************************************)
EXTENDS Integers, Sequences, FiniteSets, TLC

VARIABLES
    clock,      \* datetime.now(timezone.utc), in ticks
    issue,      \* the last create_*_token call of the issuer on its own
    verify,     \* the last verify_token call of the verifier on its own
    accounts,   \* the accounts table
    jwt_rows,   \* the token allow-list table
    jwt_seq,    \* the next id of the allow-list table's sequence
    tasks,      \* the request tasks: position, authenticated id, and (history) the
                \* allow-list sequence value when the handler started
    auth,       \* the authenticate call made by the step just taken
    revoked,    \* history: token strings whose row was deleted and not inserted again
    failed,     \* history: <<token string, cause>> of authenticate failures
    account_seq, \* the next id of the accounts table's sequence
    reply,      \* the repository call made by the step just taken
    calls       \* the repository calls in flight, one per task

vars == <<clock, issue, verify, accounts, jwt_rows, jwt_seq, tasks, auth, revoked, failed,
          account_seq, reply, calls>>

repoVars == <<account_seq, reply, calls>>

tokenVars == <<issue, verify>>

gateVars == <<jwt_rows, jwt_seq, tasks, auth, revoked, failed>>

-----------------------------------------------------------------------------
(* Time                                                                    *)

TicksPerSecond == 2

AccessDefaultMinutes == 30

RefreshDefaultMinutes == 60

Minutes(m) == m * 60 * TicksPerSecond

\* The instants the clock is sampled at: around the issue time and around
\* the two default expiries.
ClockPoints ==
    (0 .. (2 * TicksPerSecond + 1))
        \cup ((Minutes(AccessDefaultMinutes) - 1) .. (Minutes(AccessDefaultMinutes) + TicksPerSecond + 1))
        \cup ((Minutes(RefreshDefaultMinutes) - 1) .. (Minutes(RefreshDefaultMinutes) + TicksPerSecond + 1))

\* The expires_delta arguments tried: None, timedelta(0) and a few TTLs.
Deltas == {<< >>} \cup {<<d>> : d \in 0 .. (TicksPerSecond + 1)}

-----------------------------------------------------------------------------
(* Configuration                                                           *)

ACCESS_SECRET_KEY == "access-secret"

REFRESH_SECRET_KEY == "refresh-secret"

ALGORITHM == "HS256"

-----------------------------------------------------------------------------
(* Signed tokens.  A JWT string is determined by its header algorithm, its *)
(* payload and the signing key, so a token string is modelled as that      *)
(* record; two strings are equal exactly when the records are.             *)

NoSub == "<absent>"

\* The "sub" entries of the data dict handed to the issuers.
Subs == {"1", "2", "abc", NoSub}

\* int(account_id): defined on decimal strings only.
IntOf == [s \in {"1", "2"} |-> IF s = "1" THEN 1 ELSE 2]

\* jwt.encode turns a datetime "exp" into whole seconds since the epoch
\* (timegm of the UTC time tuple), dropping the fraction.
NumericDate(t) == (t \div TicksPerSecond) * TicksPerSecond

encode(payload, key, algorithm) ==
    [key |-> key, alg |-> algorithm, sub |-> payload.sub, exp |-> NumericDate(payload.exp)]

\* jwt.decode(token, key, algorithms=[algorithm]) at time now: the payload,
\* or the InvalidTokenError subclass raised.
decode(token, key, algorithm, now) ==
    IF token.alg # algorithm THEN [err |-> "InvalidAlgorithmError"]
    ELSE IF token.key # key THEN [err |-> "InvalidSignatureError"]
    ELSE IF token.exp <= now THEN [err |-> "ExpiredSignatureError"]
    ELSE [err |-> "", sub |-> token.sub]

create_access_token(data, expires_delta, now) ==
    LET expire == IF Len(expires_delta) > 0 /\ expires_delta[1] # 0
                  THEN now + expires_delta[1]
                  ELSE now + Minutes(AccessDefaultMinutes)
    IN  encode([sub |-> data.sub, exp |-> expire], ACCESS_SECRET_KEY, ALGORITHM)

create_refresh_token(data, expires_delta, now) ==
    LET expire == IF Len(expires_delta) > 0 /\ expires_delta[1] # 0
                  THEN now + expires_delta[1]
                  ELSE now + Minutes(RefreshDefaultMinutes)
    IN  encode([sub |-> data.sub, exp |-> expire], REFRESH_SECRET_KEY, ALGORITHM)

Ok(id) == [kind |-> "ok", id |-> id]

Fail(kind) == [kind |-> kind, id |-> 0]

\* verify_token that does not look at the expiry.
verify_token_ignoring_exp(token, type, now) ==
    LET secret_key == IF type = "access" THEN ACCESS_SECRET_KEY ELSE REFRESH_SECRET_KEY
        payload == decode(token, secret_key, ALGORITHM, token.exp - 1)
    IN  IF payload.err # "" THEN Fail("AccountUnAuthorizedException")
        ELSE IF payload.sub = NoSub THEN Fail("AccountUnAuthorizedException")
        ELSE IF payload.sub \notin DOMAIN IntOf THEN Fail("ValueError")
        ELSE Ok(IntOf[payload.sub])

\* verify_token with one secret for both classes.
verify_token_one_secret(token, type, now) ==
    LET payload == decode(token, token.key, ALGORITHM, now)
    IN  IF payload.err # "" THEN Fail("AccountUnAuthorizedException")
        ELSE IF payload.sub = NoSub THEN Fail("AccountUnAuthorizedException")
        ELSE IF payload.sub \notin DOMAIN IntOf THEN Fail("ValueError")
        ELSE Ok(IntOf[payload.sub])

verify_token(token, type, now) ==
    LET secret_key == IF type = "access" THEN ACCESS_SECRET_KEY ELSE REFRESH_SECRET_KEY
        payload == decode(token, secret_key, ALGORITHM, now)
    IN  IF payload.err # "" THEN Fail("AccountUnAuthorizedException")
        ELSE IF payload.sub = NoSub THEN Fail("AccountUnAuthorizedException")
        ELSE IF payload.sub \notin DOMAIN IntOf THEN Fail("ValueError")
        ELSE Ok(IntOf[payload.sub])

-----------------------------------------------------------------------------
(* The token allow-list store and the authentication gate                  *)

\* The empty string, as a credential.
EmptyString == [key |-> "", alg |-> "", sub |-> "", exp |-> 0]

TokenValues(rows) == {r.token_value : r \in rows}

\* JWTRepository.get_by_token_value: the row, or NotFoundException.
get_by_token_value(rows, token_value) ==
    IF token_value \in TokenValues(rows)
    THEN [err |-> "", row |-> CHOOSE r \in rows : r.token_value = token_value]
    ELSE [err |-> "NotFoundException"]

\* JWTRepository.delete_by_account_id: the table without the account's rows.
delete_by_account_id(rows, account_id) == {r \in rows : r.account_id # account_id}

\* The choice with the OAuth2 token first.
chosen_token_oauth_first(oauth_token, http_credential) ==
    IF Len(oauth_token) > 0 /\ oauth_token[1] # EmptyString THEN oauth_token
    ELSE IF Len(http_credential) > 0 THEN <<http_credential[1].credentials>>
    ELSE << >>

\* The credential authenticate settles on: the HTTP bearer credential when
\* there is one, else the OAuth2 token when it is truthy, else None.
chosen_token(oauth_token, http_credential) ==
    IF Len(http_credential) > 0 THEN <<http_credential[1].credentials>>
    ELSE IF Len(oauth_token) > 0 /\ oauth_token[1] # EmptyString THEN oauth_token
    ELSE << >>

\* authenticate without the allow-list lookup.
authenticate_no_lookup(oauth_token, http_credential, rows, now) ==
    LET token == chosen_token(oauth_token, http_credential)
    IN  IF Len(token) > 0 /\ token[1] # EmptyString
        THEN verify_token(token[1], "access", now)
        ELSE Fail("AccountUnAuthorizedException")

authenticate(oauth_token, http_credential, rows, now) ==
    LET token == chosen_token(oauth_token, http_credential)
    IN  IF Len(token) > 0 /\ token[1] # EmptyString
        THEN IF get_by_token_value(rows, token[1]).err = "NotFoundException"
             THEN Fail("AccountUnAuthorizedException")
             ELSE verify_token(token[1], "access", now)
        ELSE Fail("AccountUnAuthorizedException")

-----------------------------------------------------------------------------
(* The issuer and the verifier on their own                                *)

\* The token values authenticate looks up in the allow-list: the chosen
\* credential, under `if token:`.
lookups(oauth_token, http_credential) ==
    LET token == chosen_token(oauth_token, http_credential)
    IN  IF Len(token) > 0 /\ token[1] # EmptyString THEN {token[1]} ELSE {}

NoToken == [key |-> "", alg |-> "", sub |-> NoSub, exp |-> 0]

NoIssue == [cls |-> "", delta |-> << >>, now |-> 0, token |-> NoToken]

NoAuth == [called |-> FALSE, authorization |-> << >>, result |-> Fail("")]

NumTasks == 1

Tasks == 1 .. NumTasks

NoReply == [op |-> ""]

IdleCall == [pc |-> "idle"]

NumCallers == 2

Callers == 1 .. NumCallers

IdleTask == [pc |-> "idle", account_id |-> 0, started_at |-> 0]

NoVerify == [type |-> "", now |-> 0, token |-> NoToken, result |-> Fail(""), gate |-> Fail("")]

InitToken ==
    /\ clock = 0
    /\ issue = NoIssue
    /\ verify = NoVerify
    /\ accounts = {}
    /\ jwt_rows = {}
    /\ jwt_seq = 1
    /\ tasks = [t \in Tasks |-> IdleTask]
    /\ auth = NoAuth
    /\ revoked = {}
    /\ failed = {}
    /\ account_seq = 1
    /\ reply = NoReply
    /\ calls = [t \in Callers |-> IdleCall]

AdvanceClock(c) ==
    /\ c > clock
    /\ clock' = c
    /\ auth' = NoAuth
    /\ reply' = NoReply
    /\ UNCHANGED <<issue, verify, accounts, jwt_rows, jwt_seq, tasks, revoked, failed,
                   account_seq, calls>>

IssueAccess ==
    /\ \E sub \in Subs, delta \in Deltas :
          issue' = [cls |-> "access", delta |-> delta, now |-> clock,
                    token |-> create_access_token([sub |-> sub], delta, clock)]
    /\ verify' = NoVerify
    /\ UNCHANGED <<clock, accounts, gateVars, repoVars>>

IssueRefresh ==
    /\ \E sub \in Subs, delta \in Deltas :
          issue' = [cls |-> "refresh", delta |-> delta, now |-> clock,
                    token |-> create_refresh_token([sub |-> sub], delta, clock)]
    /\ verify' = NoVerify
    /\ UNCHANGED <<clock, accounts, gateVars, repoVars>>

VerifyToken ==
    /\ issue.cls # ""
    /\ \E type \in {"access", "refresh"} :
          verify' = [type |-> type, now |-> clock, token |-> issue.token,
                     result |-> verify_token(issue.token, type, clock),
                     gate |-> authenticate(<< >>, <<[credentials |-> issue.token]>>,
                                           {[id |-> 1, token_value |-> issue.token, account_id |-> 1]},
                                           clock)]
    /\ UNCHANGED <<clock, issue, accounts, gateVars, repoVars>>

NextToken == (\E c \in ClockPoints : AdvanceClock(c)) \/ IssueAccess \/ IssueRefresh \/ VerifyToken

SpecToken == InitToken /\ [][NextToken]_vars

-----------------------------------------------------------------------------
(* The gate, the allow-list and delete_account under concurrent requests   *)

MaxJwtRows == 2

\* str(account.id), the subject the token endpoint puts in a token.
StrOf == [a \in {1, 2} |-> IF a = 1 THEN "1" ELSE "2"]

Account(id, email, phone, created_at, updated_at) ==
    [id |-> id, email |-> email, phone |-> phone,
     created_at |-> created_at, updated_at |-> updated_at]

SeedAccounts == {Account(1, "a@acme.io", "123", 0, 0), Account(2, "b@acme.io", "123", 0, 0)}

\* The expires_delta the token endpoint passes: none.
IssueDeltas == {<< >>}

\* The instants the clock is sampled at: within the second of the first
\* issue, and at the default access expiry.
GateClockPoints == {1, Minutes(AccessDefaultMinutes)}

LastClockPoint == Minutes(RefreshDefaultMinutes) + TicksPerSecond + 1

\* Strings presented to the gate that were never in the allow-list: one
\* signed with a foreign key and one properly signed access token.
Strangers ==
    {[key |-> "foreign-secret", alg |-> ALGORITHM, sub |-> "1", exp |-> 2 * LastClockPoint],
     create_access_token([sub |-> "1"], << >>, LastClockPoint)}

Presentable == TokenValues(jwt_rows) \cup revoked \cup Strangers

InitGate ==
    /\ clock = 0
    /\ issue = NoIssue
    /\ verify = NoVerify
    /\ accounts = SeedAccounts
    /\ jwt_rows = {}
    /\ jwt_seq = 1
    /\ tasks = [t \in Tasks |-> IdleTask]
    /\ auth = NoAuth
    /\ revoked = {}
    /\ failed = {}
    /\ account_seq = 1
    /\ reply = NoReply
    /\ calls = [t \in Callers |-> IdleCall]

\* The token endpoint: sign an access token for an existing account and store
\* it with JWTRepository.create; token_value is UNIQUE, a duplicate is refused.
IssueToken(a, expires_delta) ==
    /\ jwt_seq <= MaxJwtRows
    /\ a \in {r.id : r \in accounts}
    /\ LET token == create_access_token([sub |-> StrOf[a]], expires_delta, clock)
       IN  IF token \in TokenValues(jwt_rows)
           THEN UNCHANGED <<jwt_rows, revoked>>
           ELSE /\ jwt_rows' = jwt_rows \cup
                       {[id |-> jwt_seq, token_value |-> token, account_id |-> a]}
                /\ revoked' = revoked \ {token}
    /\ jwt_seq' = jwt_seq + 1
    /\ auth' = NoAuth
    /\ UNCHANGED <<clock, tokenVars, accounts, tasks, failed, repoVars>>

\* Logout: the row of one token string is deleted.
Logout(token) ==
    /\ token \in TokenValues(jwt_rows)
    /\ jwt_rows' = {r \in jwt_rows : r.token_value # token}
    /\ revoked' = revoked \cup {token}
    /\ auth' = NoAuth
    /\ UNCHANGED <<clock, tokenVars, accounts, jwt_seq, tasks, failed, repoVars>>

\* Why an authenticate call failed, as far as the lifecycle names a cause.
FailureCauses(token, rows, now) ==
    IF Len(token) = 0 THEN {}
    ELSE IF token[1] \notin TokenValues(rows)
         THEN (IF token[1] \in revoked THEN {<<token[1], "revoked">>} ELSE {})
         ELSE IF decode(token[1], ACCESS_SECRET_KEY, ALGORITHM, now).err = "ExpiredSignatureError"
              THEN {<<token[1], "expired">>}
              ELSE {}

\* oauth2_scheme (OAuth2PasswordBearer, auto_error off) on the request's
\* "Authorization: Bearer <param>" header: the param, None without header.
oauth2_scheme(authorization) == authorization

\* http_bearer_scheme (HTTPBearer, auto_error off) on the same header: the
\* credentials, None without header or with empty credentials.
http_bearer_scheme(authorization) ==
    IF Len(authorization) > 0 /\ authorization[1] # EmptyString
    THEN <<[credentials |-> authorization[1]]>>
    ELSE << >>

\* The authenticate dependency of a request with the given header.
Gate(authorization) ==
    authenticate(oauth2_scheme(authorization), http_bearer_scheme(authorization), jwt_rows, clock)

GateEffect(authorization) ==
    /\ auth' = [called |-> TRUE, authorization |-> authorization, result |-> Gate(authorization)]
    /\ failed' = IF Gate(authorization).kind = "ok" THEN failed
                 ELSE failed \cup FailureCauses(authorization, jwt_rows, clock)

\* get_account: authenticate, then a read of the account row.
GetAccount(authorization) ==
    /\ GateEffect(authorization)
    /\ UNCHANGED <<clock, tokenVars, accounts, jwt_rows, jwt_seq, tasks, revoked, repoVars>>

\* delete_account: authenticate runs first; the handler goes on with the
\* identity it returned.
DeleteAccountBegin(t, authorization) ==
    /\ tasks[t].pc = "idle"
    /\ GateEffect(authorization)
    /\ LET result == Gate(authorization)
       IN  tasks' = IF result.kind = "ok"
                    THEN [tasks EXCEPT ![t] =
                            [pc |-> "del_tokens", account_id |-> result.id,
                             started_at |-> jwt_seq]]
                    ELSE tasks
    /\ UNCHANGED <<clock, tokenVars, accounts, jwt_rows, jwt_seq, revoked, repoVars>>

\* delete_account, first statement: jwt_repository.delete_by_account_id.
\* When the statement fails the handler ends there.
DeleteAccountTokens(t, succeeds) ==
    /\ tasks[t].pc = "del_tokens"
    /\ IF succeeds
       THEN /\ jwt_rows' = delete_by_account_id(jwt_rows, tasks[t].account_id)
            /\ revoked' = revoked \cup TokenValues(jwt_rows \ jwt_rows')
            /\ tasks' = [tasks EXCEPT ![t].pc = "del_account"]
       ELSE /\ tasks' = [tasks EXCEPT ![t] = IdleTask]
            /\ UNCHANGED <<jwt_rows, revoked>>
    /\ auth' = NoAuth
    /\ UNCHANGED <<clock, tokenVars, accounts, jwt_seq, failed, repoVars>>

\* delete_account deleting the account without waiting for the tokens.
DeleteAccountRowEarly(t) ==
    /\ tasks[t].pc \in {"del_tokens", "del_account"}
    /\ accounts' = {r \in accounts : r.id # tasks[t].account_id}
    /\ tasks' = [tasks EXCEPT ![t] = IdleTask]
    /\ auth' = NoAuth
    /\ UNCHANGED <<clock, tokenVars, jwt_rows, jwt_seq, revoked, failed, repoVars>>

\* delete_account, second statement: account_repository.delete.
DeleteAccountRow(t) ==
    /\ tasks[t].pc = "del_account"
    /\ accounts' = {r \in accounts : r.id # tasks[t].account_id}
    /\ tasks' = [tasks EXCEPT ![t] = IdleTask]
    /\ auth' = NoAuth
    /\ UNCHANGED <<clock, tokenVars, jwt_rows, jwt_seq, revoked, failed, repoVars>>

\* The Authorization headers tried: none, "Bearer " and "Bearer <string>".
Headers == {<< >>, <<EmptyString>>} \cup {<<s>> : s \in Presentable}

NextGate ==
    \/ \E c \in GateClockPoints : AdvanceClock(c)
    \/ \E a \in DOMAIN StrOf, d \in IssueDeltas : IssueToken(a, d)
    \/ \E token \in TokenValues(jwt_rows) : Logout(token)
    \/ \E h \in Headers : GetAccount(h)
    \/ \E t \in Tasks, h \in Headers : DeleteAccountBegin(t, h)
    \/ \E t \in Tasks, succeeds \in BOOLEAN : DeleteAccountTokens(t, succeeds)
    \/ \E t \in Tasks : DeleteAccountRow(t)

SpecGate == InitGate /\ [][NextGate]_vars

-----------------------------------------------------------------------------
(* The repository, on the accounts table: id (autoincrement primary key),  *)
(* email (UNIQUE), phone (standing for the columns without a constraint),  *)
(* created_at and updated_at (set by the server).                          *)

MaxAccountId == 3

Emails == {"a@acme.io", "b@acme.io"}

Phones == {"123", "456"}

NoRow == Account(0, "", "", 0, 0)

Found(row) == [kind |-> "ok", entity |-> row]

Raise(kind) == [kind |-> kind, entity |-> NoRow]

\* The field maps handed to create, and to update (which may be partial).
CreateMaps == {[email |-> e, phone |-> p] : e \in Emails, p \in Phones}

UpdateMaps == CreateMaps \cup {[email |-> e] : e \in Emails} \cup {[phone |-> p] : p \in Phones}

EmailTaken(table, email, entity_id) ==
    \E r \in table : r.email = email /\ r.id # entity_id

\* insert(model).values(values).returning(model.id), then commit: the new
\* table and the generated id, or the IntegrityError of the unique index.
insert_stmt(table, seq, values, now) ==
    IF EmailTaken(table, values.email, 0)
    THEN [err |-> "IntegrityError", table |-> table, id |-> << >>]
    ELSE [err |-> "",
          table |-> table \cup {Account(seq, values.email, values.phone, now, now)},
          id |-> <<seq>>]

\* update(model).where(id == entity_id).values(values).returning(model.id),
\* then commit: None is returned when no row has that id.
update_stmt(table, entity_id, values, now) ==
    IF ~ \E r \in table : r.id = entity_id
    THEN [err |-> "", table |-> table, id |-> << >>]
    ELSE IF "email" \in DOMAIN values /\ EmailTaken(table, values.email, entity_id)
    THEN [err |-> "IntegrityError", table |-> table, id |-> << >>]
    ELSE LET old == CHOOSE r \in table : r.id = entity_id
             new == [f \in DOMAIN old |->
                        IF f \in DOMAIN values THEN values[f]
                        ELSE IF f = "updated_at" THEN now
                        ELSE old[f]]
         IN  [err |-> "", table |-> (table \ {old}) \cup {new}, id |-> <<entity_id>>]

\* AccountRepository.handle_sql_error, on a unique violation.
handle_sql_error == Raise("NotUniqueException")

\* get_one that forgets the where clause.
get_one_first(table, entity_id) ==
    IF table # {}
    THEN Found(CHOOSE r \in table : \A x \in table : r.id <= x.id)
    ELSE Raise("NotFoundException")

\* entity_id is an Optional: update hands over what its statement returned.
get_one(table, entity_id) ==
    IF Len(entity_id) > 0 /\ \E r \in table : r.id = entity_id[1]
    THEN Found(CHOOSE r \in table : r.id = entity_id[1])
    ELSE Raise("NotFoundException")

\* create that stores the unique column only.
create_partial(table, seq, values, now) ==
    LET w == insert_stmt(table, seq, [email |-> values.email, phone |-> ""], now)
    IN  IF w.err = "IntegrityError"
        THEN [table |-> w.table, result |-> handle_sql_error]
        ELSE [table |-> w.table, result |-> get_one(w.table, w.id)]

create(table, seq, values, now) ==
    LET w == insert_stmt(table, seq, values, now)
    IN  IF w.err = "IntegrityError"
        THEN [table |-> w.table, result |-> handle_sql_error]
        ELSE [table |-> w.table, result |-> get_one(w.table, w.id)]

update(table, entity_id, values, now) ==
    LET w == update_stmt(table, entity_id, values, now)
    IN  IF w.err = "IntegrityError"
        THEN [table |-> w.table, result |-> handle_sql_error]
        ELSE [table |-> w.table, result |-> get_one(w.table, w.id)]

Drop(seq, n) == SubSeq(seq, n + 1, Len(seq))

Take(seq, n) == SubSeq(seq, 1, IF n < Len(seq) THEN n ELSE Len(seq))

\* rows is the table in the order the select returns it.
get_multiple(rows, skip, limit) ==
    LET total == Len(rows)
        skipped == IF Len(skip) > 0 /\ skip[1] # 0 THEN Drop(rows, skip[1]) ELSE rows
        result == IF Len(limit) > 0 /\ limit[1] # 0 THEN Take(skipped, limit[1]) ELSE skipped
    IN  [records |-> result, total |-> total]

\* add_account without its except clause.
add_account_uncaught(result) == result

\* add_account: what the endpoint makes of create's outcome.
add_account(result) ==
    IF result.kind = "NotUniqueException" THEN Raise("AccountEmailRegistered") ELSE result

\* The errors of sqlalchemy.exc a statement or a commit fails with that are
\* not an IntegrityError: the connection is lost, the statement times out.
BackendErrors == {"OperationalError"}

\* create, update or execute_sql whose statement fails with such an error:
\* `except IntegrityError` does not match it, _get_session closes the session
\* with nothing committed, and the error leaves the call as it is.
uncaught(table, error) == [table |-> table, result |-> Raise(error)]

\* The raw statements handed to execute_sql, all with the bound parameters
\* :key and :value,
\*   select   SELECT * FROM account WHERE phone = :key
\*   phone    UPDATE account SET phone = :value WHERE phone = :key
\*   email    UPDATE account SET email = :value WHERE phone = :key
\*   delete   DELETE FROM account WHERE phone = :key
\* and fetch as the docstring of execute_sql prescribes it: true for the
\* select, false for the writes.
SqlStatements ==
    {[verb |-> "select", key |-> k, value |-> "", fetch |-> TRUE] : k \in Phones}
        \cup {[verb |-> "phone", key |-> k, value |-> v, fetch |-> FALSE] : k \in Phones, v \in Phones}
        \cup {[verb |-> "email", key |-> k, value |-> v, fetch |-> FALSE] : k \in Phones, v \in Emails}
        \cup {[verb |-> "delete", key |-> k, value |-> "", fetch |-> FALSE] : k \in Phones}

\* session.execute(text(sql), parameters): the rows of the result, the
\* rowcount, and the table as the session sees it before any commit; the
\* unique index on email refuses the statement with an IntegrityError.
session_execute(table, sql) ==
    LET hit == {r \in table : r.phone = sql.key}
        set == IF sql.verb = "phone" THEN {[r EXCEPT !.phone = sql.value] : r \in hit}
               ELSE IF sql.verb = "email" THEN {[r EXCEPT !.email = sql.value] : r \in hit}
               ELSE IF sql.verb = "delete" THEN {}
               ELSE hit
        pending == (table \ hit) \cup set
    IN  IF \E r \in pending : EmailTaken(pending, r.email, r.id)
        THEN [err |-> "IntegrityError", table |-> table, rowcount |-> 0, rows |-> {}]
        ELSE [err |-> "", table |-> pending, rowcount |-> Cardinality(hit),
              rows |-> IF sql.verb = "select" THEN hit ELSE {}]

SqlOk(rowcount, rows) == [kind |-> "ok", rowcount |-> rowcount, rows |-> rows]

SqlRaise(kind) == [kind |-> kind, rowcount |-> 0, rows |-> {}]

\* execute_sql that returns the rowcount without the commit.
execute_sql_no_commit(table, sql, fetch) ==
    LET r == session_execute(table, sql)
    IN  IF r.err = "IntegrityError"
        THEN [table |-> table, result |-> SqlRaise(handle_sql_error.kind)]
        ELSE IF ~ fetch
        THEN [table |-> table, result |-> SqlOk(r.rowcount, {})]
        ELSE [table |-> table, result |-> SqlOk(0, r.rows)]

\* What the session did is in the table once it is committed, and gone once
\* the session is rolled back or closed.
execute_sql(table, sql, fetch) ==
    LET r == session_execute(table, sql)
    IN  IF r.err = "IntegrityError"
        THEN [table |-> table, result |-> SqlRaise(handle_sql_error.kind)]
        ELSE IF ~ fetch
        THEN [table |-> r.table, result |-> SqlOk(r.rowcount, {})]
        ELSE [table |-> table, result |-> SqlOk(0, r.rows)]

-----------------------------------------------------------------------------
(* The repository, one call at a time                                      *)

RepoClockPoints == {1}

Ids == 1 .. MaxAccountId

\* The orders a select without ORDER BY may return the table in.
Orders(table) ==
    {o \in [1 .. Cardinality(table) -> table] : \A i, j \in DOMAIN o : i # j => o[i] # o[j]}

Paging == {<< >>} \cup {<<n>> : n \in 0 .. 2}

InitRepo ==
    /\ clock = 0
    /\ issue = NoIssue
    /\ verify = NoVerify
    /\ accounts = {}
    /\ jwt_rows = {}
    /\ jwt_seq = 1
    /\ tasks = [t \in Tasks |-> IdleTask]
    /\ auth = NoAuth
    /\ revoked = {}
    /\ failed = {}
    /\ account_seq = 1
    /\ reply = NoReply
    /\ calls = [t \in Callers |-> IdleCall]

idleVars == <<issue, verify, jwt_rows, jwt_seq, tasks, auth, revoked, failed>>

AddAccount(values) ==
    /\ account_seq <= MaxAccountId
    /\ LET c == create(accounts, account_seq, values, clock)
       IN  /\ accounts' = c.table
           /\ reply' = [op |-> "create", values |-> values, before |-> accounts,
                        result |-> c.result, response |-> add_account(c.result)]
    /\ account_seq' = account_seq + 1
    /\ UNCHANGED <<clock, calls, idleVars>>

UpdateAccount(entity_id, values) ==
    /\ LET u == update(accounts, entity_id, values, clock)
       IN  /\ accounts' = u.table
           /\ reply' = [op |-> "update", entity_id |-> entity_id, values |-> values,
                        before |-> accounts, result |-> u.result]
    /\ UNCHANGED <<clock, account_seq, calls, idleVars>>

GetOne(entity_id) ==
    /\ reply' = [op |-> "get_one", entity_id |-> entity_id,
                 result |-> get_one(accounts, <<entity_id>>)]
    /\ UNCHANGED <<clock, accounts, account_seq, calls, idleVars>>

GetMultiple(skip, limit) ==
    /\ \E rows \in Orders(accounts) :
          reply' = [op |-> "get_multiple", skip |-> skip, limit |-> limit, rows |-> rows,
                    result |-> get_multiple(rows, skip, limit)]
    /\ UNCHANGED <<clock, accounts, account_seq, calls, idleVars>>

\* AccountRepository.delete.
DeleteRow(entity_id) ==
    /\ \E r \in accounts : r.id = entity_id
    /\ accounts' = {r \in accounts : r.id # entity_id}
    /\ reply' = NoReply
    /\ UNCHANGED <<clock, account_seq, calls, idleVars>>

NextRepo ==
    \/ \E c \in RepoClockPoints : AdvanceClock(c)
    \/ \E values \in CreateMaps : AddAccount(values)
    \/ \E entity_id \in Ids, values \in UpdateMaps : UpdateAccount(entity_id, values)
    \/ \E entity_id \in Ids : GetOne(entity_id)
    \/ \E skip \in Paging, limit \in Paging : GetMultiple(skip, limit)
    \/ \E entity_id \in Ids : DeleteRow(entity_id)

SpecRepo == InitRepo /\ [][NextRepo]_vars

-----------------------------------------------------------------------------
(* The repository under concurrent calls: a call is suspended at each      *)
(* database round trip, and create and update make two, the statement in   *)
(* one session and the read-back in another.                               *)

\* add_account, first round trip: the insert.
CreateInsert(t, values) ==
    /\ calls[t].pc = "idle"
    /\ account_seq <= MaxAccountId
    /\ LET w == insert_stmt(accounts, account_seq, values, clock)
       IN  IF w.err = "IntegrityError"
           THEN /\ reply' = [op |-> "create", task |-> t, values |-> values,
                             wrote |-> w.id, result |-> handle_sql_error,
                             response |-> add_account(handle_sql_error)]
                /\ UNCHANGED <<accounts, calls>>
           ELSE /\ accounts' = w.table
                /\ calls' = [calls EXCEPT ![t] = [pc |-> "create_read", op |-> "create",
                                                  id |-> w.id, values |-> values]]
                /\ reply' = NoReply
    /\ account_seq' = account_seq + 1
    /\ UNCHANGED <<clock, idleVars>>

\* update_account, first round trip: the update.
UpdateWrite(t, entity_id, values) ==
    /\ calls[t].pc = "idle"
    /\ LET w == update_stmt(accounts, entity_id, values, clock)
       IN  IF w.err = "IntegrityError"
           THEN /\ reply' = [op |-> "update", task |-> t, values |-> values,
                             wrote |-> w.id, result |-> handle_sql_error,
                             response |-> handle_sql_error]
                /\ UNCHANGED <<accounts, calls>>
           ELSE /\ accounts' = w.table
                /\ calls' = [calls EXCEPT ![t] = [pc |-> "update_read", op |-> "update",
                                                  id |-> w.id, values |-> << >>]]
                /\ reply' = NoReply
    /\ UNCHANGED <<clock, account_seq, idleVars>>

\* The second round trip of both: get_one of the id the statement returned.
ReadBack(t) ==
    /\ calls[t].pc \in {"create_read", "update_read"}
    /\ LET result == get_one(accounts, calls[t].id)
       IN  reply' = [op |-> calls[t].op, task |-> t, values |-> calls[t].values,
                     wrote |-> calls[t].id, result |-> result,
                     response |-> IF calls[t].op = "create" THEN add_account(result) ELSE result]
    /\ calls' = [calls EXCEPT ![t] = IdleCall]
    /\ UNCHANGED <<clock, accounts, account_seq, idleVars>>

\* The request task is cancelled while it waits for the read-back:
\* CancelledError is raised at the await, _get_session closes the read
\* session, and the call ends; the statement's session is committed already.
Cancel(t) ==
    /\ calls[t].pc \in {"create_read", "update_read"}
    /\ reply' = [op |-> calls[t].op, task |-> t, values |-> calls[t].values,
                 wrote |-> calls[t].id, result |-> Raise("CancelledError"),
                 response |-> Raise("CancelledError")]
    /\ calls' = [calls EXCEPT ![t] = IdleCall]
    /\ UNCHANGED <<clock, accounts, account_seq, idleVars>>

\* The field maps the concurrent calls carry: either email, one phone.
ConcCreateMaps == {[email |-> e, phone |-> "123"] : e \in Emails}

ConcUpdateMaps == {[email |-> e] : e \in Emails} \cup {[phone |-> "456"]}

NextRepoConc ==
    \/ \E t \in Callers, values \in ConcCreateMaps : CreateInsert(t, values)
    \/ \E t \in Callers, entity_id \in Ids, values \in ConcUpdateMaps : UpdateWrite(t, entity_id, values)
    \/ \E t \in Callers : ReadBack(t)
    \/ \E t \in Callers : Cancel(t)
    \/ \E entity_id \in Ids : DeleteRow(entity_id)

SpecRepoConc == InitRepo /\ [][NextRepoConc]_vars

-----------------------------------------------------------------------------
(* The repository with its raw-statement path and a backend that may fail  *)

ExecuteSql(sql) ==
    /\ LET e == execute_sql(accounts, sql, sql.fetch)
       IN  /\ accounts' = e.table
           /\ reply' = [op |-> "execute_sql", sql |-> sql, before |-> accounts,
                        result |-> e.result]
    /\ UNCHANGED <<clock, account_seq, calls, idleVars>>

\* create, update and execute_sql, the statement failing with a backend
\* error that is not an IntegrityError.
CreateBackendError(values, error) ==
    /\ LET c == uncaught(accounts, error)
       IN  /\ accounts' = c.table
           /\ reply' = [op |-> "create", values |-> values, before |-> accounts,
                        result |-> c.result, response |-> add_account(c.result)]
    /\ UNCHANGED <<clock, account_seq, calls, idleVars>>

UpdateBackendError(entity_id, values, error) ==
    /\ LET u == uncaught(accounts, error)
       IN  /\ accounts' = u.table
           /\ reply' = [op |-> "update", entity_id |-> entity_id, values |-> values,
                        before |-> accounts, result |-> u.result]
    /\ UNCHANGED <<clock, account_seq, calls, idleVars>>

ExecuteSqlBackendError(sql, error) ==
    /\ LET e == uncaught(accounts, error)
       IN  /\ accounts' = e.table
           /\ reply' = [op |-> "execute_sql", sql |-> sql, before |-> accounts,
                        result |-> SqlRaise(e.result.kind)]
    /\ UNCHANGED <<clock, account_seq, calls, idleVars>>

NextRepoSql ==
    \/ \E values \in CreateMaps : AddAccount(values)
    \/ \E entity_id \in Ids, values \in UpdateMaps : UpdateAccount(entity_id, values)
    \/ \E entity_id \in Ids : DeleteRow(entity_id)
    \/ \E sql \in SqlStatements : ExecuteSql(sql)
    \/ \E values \in CreateMaps, error \in BackendErrors : CreateBackendError(values, error)
    \/ \E entity_id \in Ids, values \in UpdateMaps, error \in BackendErrors :
          UpdateBackendError(entity_id, values, error)
    \/ \E sql \in SqlStatements, error \in BackendErrors : ExecuteSqlBackendError(sql, error)

SpecRepoSql == InitRepo /\ [][NextRepoSql]_vars

-----------------------------------------------------------------------------
(* authenticate on its own, over every pair of credentials                 *)

\* The strings presented: the empty string, an access token of account 1 and
\* of account 2, and a refresh token of account 1, all issued at time 0.
Credentials ==
    {EmptyString,
     create_access_token([sub |-> "1"], << >>, 0),
     create_access_token([sub |-> "2"], << >>, 0),
     create_refresh_token([sub |-> "1"], << >>, 0)}

\* The allow-lists tried: any of the issued tokens may have its row.
AllowLists ==
    SUBSET {[id |-> 1, token_value |-> create_access_token([sub |-> "1"], << >>, 0), account_id |-> 1],
            [id |-> 2, token_value |-> create_access_token([sub |-> "2"], << >>, 0), account_id |-> 2],
            [id |-> 3, token_value |-> create_refresh_token([sub |-> "1"], << >>, 0), account_id |-> 1]}

OAuthTokens == {<< >>} \cup {<<c>> : c \in Credentials}

HttpCredentials == {<< >>} \cup {<<[scheme |-> "Bearer", credentials |-> c]>> : c \in Credentials}

InitAuth ==
    /\ clock = 0
    /\ issue = NoIssue
    /\ verify = NoVerify
    /\ accounts = SeedAccounts
    /\ jwt_rows \in AllowLists
    /\ jwt_seq = 4
    /\ tasks = [t \in Tasks |-> IdleTask]
    /\ auth = NoAuth
    /\ revoked = {}
    /\ failed = {}
    /\ account_seq = 1
    /\ reply = NoReply
    /\ calls = [t \in Callers |-> IdleCall]

Authenticate(oauth_token, http_credential) ==
    /\ auth' = [called |-> TRUE, oauth_token |-> oauth_token,
                http_credential |-> http_credential,
                lookups |-> lookups(oauth_token, http_credential),
                result |-> authenticate(oauth_token, http_credential, jwt_rows, clock)]
    /\ UNCHANGED <<clock, tokenVars, accounts, jwt_rows, jwt_seq, tasks, revoked, failed, repoVars>>

NextAuth ==
    \/ \E c \in GateClockPoints : AdvanceClock(c)
    \/ \E oauth_token \in OAuthTokens, http_credential \in HttpCredentials :
          Authenticate(oauth_token, http_credential)

SpecAuth == InitAuth /\ [][NextAuth]_vars

-----------------------------------------------------------------------------
(* Properties of the issuer and the verifier (SpecToken)                   *)

Unauthorized == "AccountUnAuthorizedException"

DefaultTtl(cls) ==
    IF cls = "access" THEN Minutes(AccessDefaultMinutes) ELSE Minutes(RefreshDefaultMinutes)

\* C2: a token issued by create_access_token never verifies under the refresh
\* class and a token issued by create_refresh_token never verifies under the
\* access class: both fail Unauthorized, whatever the subject and the expiry;
\* and authenticate rejects a refresh token even while its row is in the
\* allow-list.
C2_NoCrossClass ==
    verify.type # "" =>
        /\ (verify.type # issue.cls => verify.result.kind = Unauthorized)
        /\ (issue.cls = "refresh" => verify.gate.kind = Unauthorized)

\* An unexpired access token with a numeric subject, which verifies under its
\* own class, was verified under the refresh class and rejected.
C2_Witness ==
    /\ verify.type = "refresh"
    /\ issue.cls = "access"
    /\ verify_token(issue.token, "access", verify.now).kind = "ok"
    /\ verify.result.kind = Unauthorized

\* C3: a token issued at time now with a caller-supplied TTL t verifies under
\* its own class at every time before now + t and fails Unauthorized at every
\* time after now + t; the default lifetime is used only when no TTL is given.
C3_TtlHonoured ==
    /\ (issue.cls # "" /\ Len(issue.delta) > 0 /\ issue.delta[1] # DefaultTtl(issue.cls))
          => issue.token.exp # NumericDate(issue.now + DefaultTtl(issue.cls))
    /\ (verify.type # "" /\ verify.type = issue.cls /\ Len(issue.delta) > 0
            /\ issue.token.sub \in DOMAIN IntOf)
          => /\ (verify.now < issue.now + issue.delta[1] => verify.result.kind = "ok")
             /\ (verify.now > issue.now + issue.delta[1] => verify.result.kind = Unauthorized)

\* C4: verify_token and authenticate either return an identity or fail
\* Unauthorized; they produce no other failure.
C4_OnlyUnauthorized ==
    verify.type # "" =>
        /\ verify.result.kind \in {"ok", Unauthorized}
        /\ verify.gate.kind \in {"ok", Unauthorized}

-----------------------------------------------------------------------------
(* Properties of the gate and of delete_account (SpecGate).  auth is the   *)
(* authenticate call of the step just taken, which changes neither the     *)
(* allow-list nor the clock: jwt_rows and clock are those it ran with.     *)

Presented == auth.authorization[1]

\* C1: authenticate returns an account id only if the allow-list held a row
\* for exactly the presented string when it was looked up; a string without a
\* row, a properly signed unexpired access token included, is rejected with
\* Unauthorized, so every call made after the row was deleted (and not
\* inserted again) fails.
C1_AllowListAuthority ==
    auth.called =>
        /\ (auth.result.kind = "ok" =>
                Len(auth.authorization) > 0 /\ Presented \in TokenValues(jwt_rows))
        /\ (Len(auth.authorization) > 0 /\ Presented \notin TokenValues(jwt_rows) =>
                auth.result.kind = Unauthorized)

\* A properly signed, unexpired access token whose row was deleted has been
\* presented and rejected.
C1_Witness ==
    /\ auth.called
    /\ Len(auth.authorization) > 0
    /\ Presented \in revoked
    /\ verify_token(Presented, "access", clock).kind = "ok"
    /\ auth.result.kind = Unauthorized

\* C5 as stated: an expired token fails Unauthorized even while its row
\* exists, and once authenticate has failed for a string because it was
\* expired or revoked, no later authenticate with that string succeeds.
C5_NeverUsableAgain ==
    (auth.called /\ Len(auth.authorization) > 0) =>
        /\ (Presented.exp <= clock => auth.result.kind = Unauthorized)
        /\ (auth.result.kind = "ok" =>
                /\ <<Presented, "expired">> \notin failed
                /\ <<Presented, "revoked">> \notin failed)

\* C5 as amended: an expired token fails Unauthorized even while its row
\* exists; once authenticate has failed for a string because it was expired,
\* no later authenticate with it succeeds; once it has failed because the row
\* was deleted, a later authenticate with it succeeds only after a row for the
\* same string has been inserted again.
C5_Lifecycle ==
    (auth.called /\ Len(auth.authorization) > 0) =>
        /\ (Presented.exp <= clock => auth.result.kind = Unauthorized)
        /\ (auth.result.kind = "ok" =>
                /\ <<Presented, "expired">> \notin failed
                /\ (<<Presented, "revoked">> \in failed => Presented \notin revoked))

\* An expired access token whose row is still in the allow-list has been
\* presented and rejected.
C5_Witness ==
    /\ auth.called
    /\ Len(auth.authorization) > 0
    /\ Presented \in TokenValues(jwt_rows)
    /\ Presented.key = ACCESS_SECRET_KEY
    /\ Presented.exp <= clock
    /\ <<Presented, "expired">> \in failed
    /\ auth.result.kind = Unauthorized

\* The allow-list rows of account a that were there when handler t started.
RowsAtStart(t) ==
    {r \in jwt_rows : r.account_id = tasks[t].account_id /\ r.id < tasks[t].started_at}

\* C7: delete_account removes the account row only after the account's token
\* rows: at the step that removes the account row, none of the token rows the
\* account had when the handler started is left; and when the token deletion
\* fails, the handler ends without touching the account row.
C7_TokensBeforeAccount ==
    [][\A t \in Tasks :
          /\ (tasks[t].pc # "idle" /\ tasks'[t].pc = "idle" /\ accounts' # accounts)
                => RowsAtStart(t) = {}
          /\ (tasks[t].pc = "del_tokens" /\ tasks'[t].pc = "idle")
                => accounts' = accounts]_vars

\* An account that had token rows is gone, and so are its rows.
C7_Witness ==
    \E a \in DOMAIN StrOf :
        /\ a \notin {r.id : r \in accounts}
        /\ \E token \in revoked : token.sub = StrOf[a]
        /\ \A r \in jwt_rows : r.account_id # a

-----------------------------------------------------------------------------
(* Properties of the repository, one call at a time (SpecRepo).  reply is  *)
(* the call of the step just taken; reply.before is the table it started   *)
(* with and accounts the table it left.                                    *)

IdsOf(table) == {r.id : r \in table}

EmailsOf(table) == {r.email : r \in table}

\* Equality on the fields the server does not generate.
SameFields(e1, e2) == e1.email = e2.email /\ e1.phone = e2.phone

\* C8: for an id that is not in the table, get_one fails NotFound and update
\* fails NotFound and leaves the table as it was; get_one of an id that is in
\* the table returns the row with that id.
C8_NotFound ==
    /\ reply.op = "get_one" =>
          IF reply.entity_id \in IdsOf(accounts)
          THEN /\ reply.result.kind = "ok"
               /\ reply.result.entity.id = reply.entity_id
               /\ reply.result.entity \in accounts
          ELSE reply.result.kind = "NotFoundException"
    /\ (reply.op = "update" /\ reply.entity_id \notin IdsOf(reply.before)) =>
          /\ reply.result.kind = "NotFoundException"
          /\ accounts = reply.before

\* update was called with an id that a non-empty table does not hold.
C8_Witness ==
    /\ reply.op = "update"
    /\ reply.before # {}
    /\ reply.entity_id \notin IdsOf(reply.before)
    /\ reply.result.kind = "NotFoundException"

\* C9: create with a field map whose email is free returns an entity with a
\* new id and the supplied fields, and get_one of that id then returns an
\* entity with the same fields; the entity update returns carries the updated
\* fields, and so does a following get_one.
C9_ReadAfterWrite ==
    /\ reply.op = "create" =>
          /\ (reply.values.email \notin EmailsOf(reply.before) => reply.result.kind = "ok")
          /\ reply.result.kind = "ok" =>
                /\ reply.result.entity.id \notin IdsOf(reply.before)
                /\ SameFields(reply.result.entity, reply.values)
                /\ get_one(accounts, <<reply.result.entity.id>>).kind = "ok"
                /\ SameFields(get_one(accounts, <<reply.result.entity.id>>).entity,
                              reply.result.entity)
    /\ (reply.op = "update" /\ reply.result.kind = "ok") =>
          /\ reply.result.entity.id = reply.entity_id
          /\ \A f \in DOMAIN reply.values : reply.result.entity[f] = reply.values[f]
          /\ get_one(accounts, <<reply.entity_id>>).kind = "ok"
          /\ SameFields(get_one(accounts, <<reply.entity_id>>).entity, reply.result.entity)

\* create has added a row to a table that already held one.
C9_Witness ==
    /\ reply.op = "create"
    /\ reply.before # {}
    /\ reply.result.kind = "ok"
    /\ reply.result.entity.phone \in Phones

\* C10: get_multiple(skip, n) with skip >= 0 and n >= 0 returns at most n
\* records, those that follow the first skip rows, and a total_count equal to
\* the number of rows of the table whatever skip and n are.
C10_Pagination ==
    (reply.op = "get_multiple" /\ Len(reply.skip) > 0 /\ Len(reply.limit) > 0) =>
        /\ Len(reply.result.records) <= reply.limit[1]
        /\ reply.result.records = Take(Drop(reply.rows, reply.skip[1]), reply.limit[1])
        /\ reply.result.total = Cardinality(accounts)

-----------------------------------------------------------------------------
(* Properties of the repository under concurrent calls (SpecRepoConc)      *)

EmailUnique(table) == \A r1, r2 \in table : r1.email = r2.email => r1 = r2

\* The step is the insert of an add_account by t that the database refused.
InsertRefused(t) ==
    calls[t].pc = "idle" /\ reply'.op = "create" /\ reply'.task = t

\* The step is the insert of an add_account by t that the database took.
InsertTaken(t) ==
    calls[t].pc = "idle" /\ calls'[t].pc = "create_read"

\* C6: no two accounts ever share an email, however creates and updates
\* interleave; an add_account whose email is already in the table fails with
\* the email-already-registered failure and adds no row, and one whose email
\* is free adds its row, so of two creates with one email one succeeds.
C6_EmailUnique ==
    [][/\ EmailUnique(accounts')
       /\ \A t \in Callers :
            /\ InsertRefused(t) =>
                  /\ reply'.values.email \in EmailsOf(accounts)
                  /\ reply'.response.kind = "AccountEmailRegistered"
                  /\ accounts' = accounts
            /\ InsertTaken(t) =>
                  /\ calls'[t].values.email \notin EmailsOf(accounts)
                  /\ Cardinality(accounts') = Cardinality(accounts) + 1
                  /\ calls'[t].values.email \in EmailsOf(accounts')]_vars

\* Two creates with one email are in flight or done: one holds the row and
\* waits for its read-back, the other has just been refused.
C6_Witness ==
    \E t, u \in Callers :
        /\ t # u
        /\ calls[t].pc = "create_read"
        /\ reply.op = "create"
        /\ reply.task = u
        /\ reply.values.email = calls[t].values.email
        /\ reply.response.kind = "AccountEmailRegistered"

-----------------------------------------------------------------------------
(* Properties of the raw-statement path and of backend errors (SpecRepoSql) *)

\* The typed failures of the store: NotFound, Conflict, Internal.
TypedFailures == {"NotFoundException", "NotUniqueException", "InternalException"}

\* C11: every create, update and execute_sql either succeeds or fails with
\* one of the typed failures NotFound, Conflict or Internal; no error of the
\* backend's own reaches the caller.
C11_TypedFailures ==
    reply.op \in {"create", "update", "execute_sql"} =>
        reply.result.kind \in {"ok"} \cup TypedFailures

\* The rows a raw statement's where clause selects.
Hit(table, sql) == {r \in table : r.phone = sql.key}

\* The table a committed raw write leaves: the rows the where clause misses
\* untouched, the rows it hits gone (delete) or carrying the new value.
Written(before, after, sql) ==
    /\ \A r \in before \ Hit(before, sql) : r \in after
    /\ IdsOf(after) = IF sql.verb = "delete"
                      THEN IdsOf(before) \ IdsOf(Hit(before, sql))
                      ELSE IdsOf(before)
    /\ \A r \in Hit(before, sql) : \A n \in after :
          n.id = r.id =>
              /\ sql.verb = "phone" => n = [r EXCEPT !.phone = sql.value]
              /\ sql.verb = "email" => n = [r EXCEPT !.email = sql.value]

\* C12: execute_sql with fetch false commits the write and returns the
\* number of rows affected, zero included, as a normal result; with fetch
\* true it returns the rows of the result; and when the statement violates
\* an integrity constraint the table is as it was before the call.
C12_ExecuteSql ==
    (reply.op = "execute_sql" /\ reply.result.kind \notin BackendErrors) =>
        /\ reply.result.kind = "ok" /\ ~ reply.sql.fetch =>
              /\ reply.result.rowcount = Cardinality(Hit(reply.before, reply.sql))
              /\ Written(reply.before, accounts, reply.sql)
        /\ ~ reply.sql.fetch /\ Hit(reply.before, reply.sql) = {} =>
              /\ reply.result.kind = "ok"
              /\ reply.result.rowcount = 0
              /\ accounts = reply.before
        /\ reply.sql.fetch =>
              /\ reply.result.kind = "ok"
              /\ reply.result.rows = Hit(reply.before, reply.sql)
              /\ accounts = reply.before
        /\ reply.result.kind # "ok" =>
              /\ reply.result.kind = "NotUniqueException"
              /\ accounts = reply.before

\* A raw update with fetch false has changed a row and returned its count.
C12_Witness ==
    /\ reply.op = "execute_sql"
    /\ ~ reply.sql.fetch
    /\ reply.result.kind = "ok"
    /\ reply.result.rowcount > 0
    /\ accounts # reply.before

-----------------------------------------------------------------------------
(* Properties of authenticate's choice of credential (SpecAuth)            *)

\* What the gate decides on one credential string: Unauthorized for the
\* empty string and for a string without a row, else the verifier's verdict.
DecisionOn(token) ==
    IF token # EmptyString /\ token \in TokenValues(jwt_rows)
    THEN verify_token(token, "access", clock)
    ELSE Fail(Unauthorized)

\* C13: with both credentials supplied the decision is the one on the HTTP
\* bearer credential, whatever the OAuth2 token is; with one supplied it is
\* the decision on that one; with none supplied, or the chosen one empty,
\* authenticate fails Unauthorized and looks nothing up in the allow-list.
C13_CredentialChoice ==
    auth.called =>
        LET o == auth.oauth_token
            h == auth.http_credential
        IN  /\ Len(h) > 0 => auth.result = DecisionOn(h[1].credentials)
            /\ Len(h) = 0 /\ Len(o) > 0 => auth.result = DecisionOn(o[1])
            /\ \/ Len(h) = 0 /\ Len(o) = 0
               \/ Len(h) > 0 /\ h[1].credentials = EmptyString
               \/ Len(h) = 0 /\ Len(o) > 0 /\ o[1] = EmptyString
               => /\ auth.result = Fail(Unauthorized)
                  /\ auth.lookups = {}
            /\ auth.lookups \subseteq
                  {c[1].credentials : c \in {h} \ {<< >>}} \cup {c[1] : c \in {o} \ {<< >>}}

\* Both credentials are supplied: the OAuth2 token is listed and valid, the
\* HTTP bearer credential is not listed, and the call is refused.
C13_Witness ==
    /\ auth.called
    /\ Len(auth.oauth_token) > 0
    /\ Len(auth.http_credential) > 0
    /\ DecisionOn(auth.oauth_token[1]).kind = "ok"
    /\ auth.http_credential[1].credentials # EmptyString
    /\ auth.http_credential[1].credentials \notin TokenValues(jwt_rows)
    /\ auth.result = Fail(Unauthorized)

-----------------------------------------------------------------------------
(* Atomicity of create and update (SpecRepoConc)                           *)

\* C14: a create or update that ends in a failure or is cancelled has left
\* no row of its own in the table, and one that returns an entity has that
\* entity in the table.
C14_Atomic ==
    reply.op \in {"create", "update"} =>
        /\ reply.result.kind # "ok" =>
              \/ Len(reply.wrote) = 0
              \/ reply.wrote[1] \notin IdsOf(accounts)
        /\ reply.result.kind = "ok" => reply.result.entity \in accounts

-----------------------------------------------------------------------------
(* delete_account against concurrent requests of the account (SpecGate)    *)

\* C15: an account that delete_account has removed owns no allow-list row,
\* and no authenticate call returns it as the identity.
C15_DeletedStaysOut ==
    \A a \in IdsOf(SeedAccounts) \ IdsOf(accounts) :
        /\ \A r \in jwt_rows : r.account_id # a
        /\ auth.called /\ auth.result.kind = "ok" => auth.result.id # a

====
